---- MODULE Spec2Model ----
(***************************************************************************)
(* Adaptive real-time rendering runtime: the rolling PerformanceMonitor    *)
(* (js/performance-monitor.js) and the RaytracingEngine render loop        *)
(* (js/raytracing-engine.js) that drives it.                               *)
(*                                                                         *)
(* Time.  Every timestamp of the program is a reading of performance.now() *)
(* and only differences of readings are ever used.  The model measures     *)
(* time relative to the present instant: the clock always reads            *)
(* PerformanceNow, and when d milliseconds pass every stored timestamp     *)
(* moves d into the past (Advance).  Timestamps are whole milliseconds.    *)
(*                                                                         *)
(* Numbers.  FPS values are the integers Math.round produces; the IEEE     *)
(* value Infinity (1000 / 0) is the sentinel Infinity, larger than every   *)
(* finite value of the model and absorbing under addition and division.    *)
(***************************************************************************)
EXTENDS Integers, Sequences, FiniteSets, TLC

(***************************************************************************)
(* Program constants                                                       *)
(***************************************************************************)
Infinity == 1000000
PerformanceNow == 0
maxHistoryLength == 60
PoorFPS == 30
WarmupLength == 30

(***************************************************************************)
(* Bounds of the model                                                     *)
(***************************************************************************)
\* longest interval the clock may run past a stored timestamp (ms)
MaxDelta == 40
\* updates explored per monitoring session when the pace is free
MaxFrames == 4
\* updates explored per monitoring session in the window specification
MaxWindowFrames == 62
\* updates at the beginning of a session of the window specification whose
\* pace is free; the pace is steady afterwards
FreeFrames == 4
\* longest time the engine clock runs past its time origin (ms)
MaxElapsed == 80
\* requestAnimationFrame requests issued in one behaviour
MaxRequests == 4
\* successful init() calls on one engine
MaxInits == 2
\* WebGL objects created before the last init() call of one behaviour
MaxObjects == 5
\* FPS samples from which the tier functions are explored
MaxSample == 70
\* longest quiet time followed after a resize event (ms)
MaxQuiet == 500
\* resize events of one burst
MaxBurst == 3
\* config.maxParticles of the particle system
MaxParticles == 2
\* update() calls on one particle system that are followed one by one
MaxUpdates == 3
\* update() calls the particle system is left running for in one step
RunLength == 311
\* addBurst() calls on one particle system
MaxBursts == 1
\* resize() calls on one particle system after its construction
MaxResizes == 2

\* amounts by which the host clock advances in one step (ms)
Deltas == {20, 40}
\* times between two steps of the resize handling (ms)
Pauses == {100, 150}
\* canvas sizes (hundredths of a pixel): 200 x 200 and 300 x 200 pixels
Canvases == {[width |-> 20000, height |-> 20000], [width |-> 30000, height |-> 20000]}
\* sizes the window gives the particle canvas when it is resized (hundredths
\* of a pixel): 100 x 200 pixels, too small for MaxParticles, and 200 x 200
Displays == {[width |-> 10000, height |-> 20000], [width |-> 20000, height |-> 20000]}
\* pointer positions (hundredths of a pixel): the origin and a lower left
\* corner
Pointers == {[x |-> 0, y |-> 0], [x |-> 0, y |-> 20000]}
\* Math.random() values of one createParticle(): a particle about to leave
\* through the far corner, bright and short-lived, and one about to leave
\* through the origin, dim and longer-lived
Draws ==
    { [x |-> 9999, y |-> 9999, vx |-> 9999, vy |-> 9999,
       opacity |-> 9999, baseOpacity |-> 9999, maxLife |-> 0],
      [x |-> 0, y |-> 0, vx |-> 0, vy |-> 0,
       opacity |-> 0, baseOpacity |-> 0, maxLife |-> 32] }
\* Math.random() values of one particle of addBurst(): those of its
\* createParticle() and the four drawn after it
Spreads ==
    { [draw |-> [x |-> 9999, y |-> 9999, vx |-> 9999, vy |-> 9999,
                 opacity |-> 9999, baseOpacity |-> 9999, maxLife |-> 0],
       x |-> 0, y |-> 0, vx |-> 0, vy |-> 0],
      [draw |-> [x |-> 0, y |-> 0, vx |-> 0, vy |-> 0,
                 opacity |-> 0, baseOpacity |-> 0, maxLife |-> 32],
       x |-> 9999, y |-> 5000, vx |-> 9999, vy |-> 5000] }
\* count arguments of addBurst()
BurstCounts == {1, 2}
\* workload counts the host reports through the setters
Counts == {0, 7}
\* canvas.width * canvas.height of the canvas the host provides
CanvasPixels == 6
\* memoryUsage of a new monitor, and the sample Utils.getMemoryUsage returns
\* on a host that has performance.memory (megabytes)
NoMemory == [used |-> 0, total |-> 0]
MemorySample == [used |-> 12, total |-> 16]

Null == "null"

(***************************************************************************)
(* Arithmetic of the JavaScript numbers involved                           *)
(***************************************************************************)
\* Math.min / Math.max
MathMin(a, b) == IF a <= b THEN a ELSE b
MathMax(a, b) == IF a >= b THEN a ELSE b

\* Math.round(num / den) for num >= 0: round half up; x / 0 = Infinity for x > 0
RoundDiv(num, den) ==
    IF num >= Infinity THEN Infinity
    ELSE IF den = 0 THEN Infinity
    ELSE (2 * num + den) \div (2 * den)

\* Utils.calculateFPS
calculateFPS(deltaTime) == RoundDiv(1000, deltaTime)

\* frameHistory.reduce((a, b) => a + b, 0)
RECURSIVE SumSeq(_)
SumSeq(s) ==
    IF s = << >> THEN 0
    ELSE LET rest == SumSeq(Tail(s))
         IN  IF Head(s) >= Infinity \/ rest >= Infinity THEN Infinity
             ELSE Head(s) + rest

(***************************************************************************)
(* State                                                                   *)
(***************************************************************************)
VARIABLES
    monitor,          \* the PerformanceMonitor object (its fields)
    hostMemory,       \* the host has performance.memory
    display,          \* metrics snapshots handed to the update callback: the last one, or none
    callbackInvoked,  \* the last step invoked the update callback
    samples,          \* FPS samples computed since the last start()/reset()
    level,            \* last value returned by getPerformanceLevel(), or Null
    suggested,        \* last value returned by getSuggestedQuality(): << >> or <<profile>>
    engine,           \* the RaytracingEngine object (its fields)
    scheduled,        \* requestAnimationFrame requests not yet run or cancelled
    nextRequestId,    \* the id the next requestAnimationFrame call returns
    gpu,              \* the objects of the WebGL context
    calls,            \* the calls the last engine operation made, in order
    thrown,           \* the error the last engine operation threw, or NoError
    onUpdateStops,    \* the registered update callback calls engine.stop()
    resizeLog,        \* the last resize event: listeners it reached, events of its burst,
                      \* time since it, resize() runs since it
    particleSystem,   \* the ParticleSystem object (its fields and its canvas size)
    particleLog,      \* what has been called on the particle system
    lastCall          \* the operation of the last step and the flag it tested on entry

monVars == <<monitor, display, callbackInvoked, samples>>
queryVars == <<level, suggested>>
engVars == <<engine, scheduled, nextRequestId, gpu, calls, thrown, onUpdateStops>>
vars == <<monitor, hostMemory, display, callbackInvoked, samples, level, suggested,
          engine, scheduled, nextRequestId, gpu, calls, thrown, onUpdateStops,
          resizeLog, particleSystem, particleLog, lastCall>>
\* what the engine and its monitor never touch
pageVars == <<resizeLog, particleSystem, particleLog>>
\* what the particle system never touches
sceneVars == <<monitor, hostMemory, display, callbackInvoked, samples, level, suggested,
               engine, scheduled, nextRequestId, gpu, calls, thrown, onUpdateStops,
               resizeLog>>

(***************************************************************************)
(* PerformanceMonitor                                                      *)
(***************************************************************************)
\* constructor
NewMonitor ==
    [ frameCount    |-> 0,
      lastTime      |-> PerformanceNow,
      fps           |-> 0,
      averageFPS    |-> 0,
      minFPS        |-> Infinity,
      maxFPS        |-> 0,
      frameHistory  |-> << >>,
      rayCount      |-> 0,
      triangleCount |-> 0,
      memoryUsage   |-> NoMemory,
      isMonitoring  |-> FALSE,
      onUpdate      |-> FALSE ]

\* start()
start(m) ==
    [m EXCEPT !.isMonitoring = TRUE,
              !.lastTime = PerformanceNow,
              !.frameCount = 0,
              !.frameHistory = << >>]

\* stop()
stop(m) == [m EXCEPT !.isMonitoring = FALSE]

\* push without the eviction
pushSampleUnbounded(h, f) == Append(h, f)

\* push that evicts the newest sample instead of the oldest (pop for shift)
pushSamplePop(h, f) ==
    LET pushed == Append(h, f)
    IN  IF Len(pushed) > maxHistoryLength
        THEN SubSeq(pushed, 1, maxHistoryLength) ELSE pushed

\* frameHistory.push(fps); if (length > maxHistoryLength) frameHistory.shift()
pushSample(h, f) ==
    LET pushed == Append(h, f)
    IN  IF Len(pushed) > maxHistoryLength THEN Tail(pushed) ELSE pushed

\* updateStatistics() that keeps the current sample as the maximum
updateStatisticsLastMax(m) ==
    IF Len(m.frameHistory) = 0 THEN m
    ELSE [m EXCEPT !.averageFPS = RoundDiv(SumSeq(m.frameHistory), Len(m.frameHistory)),
                   !.minFPS = MathMin(m.minFPS, m.fps),
                   !.maxFPS = m.fps]

\* updateStatistics()
updateStatistics(m) ==
    IF Len(m.frameHistory) = 0 THEN m
    ELSE [m EXCEPT !.averageFPS = RoundDiv(SumSeq(m.frameHistory), Len(m.frameHistory)),
                   !.minFPS = MathMin(m.minFPS, m.fps),
                   !.maxFPS = MathMax(m.maxFPS, m.fps)]

\* Utils.getMemoryUsage(): no result (null) or one sample
getMemoryUsage(hasMemory) == IF hasMemory THEN <<MemorySample>> ELSE << >>

\* updateMemoryUsage()
updateMemoryUsage(m, hasMemory) ==
    LET memInfo == getMemoryUsage(hasMemory)
    IN  IF memInfo # << >> THEN [m EXCEPT !.memoryUsage = memInfo[1]] ELSE m

\* getMetrics()
getMetrics(m) ==
    [ fps           |-> m.fps,
      averageFPS    |-> m.averageFPS,
      minFPS        |-> IF m.minFPS = Infinity THEN 0 ELSE m.minFPS,
      maxFPS        |-> m.maxFPS,
      frameCount    |-> m.frameCount,
      rayCount      |-> m.rayCount,
      triangleCount |-> m.triangleCount,
      memoryUsage   |-> m.memoryUsage ]

\* update(): if (!this.isMonitoring) return
updateSkipsAlways(m) == FALSE
updateReturnsEarly(m) == ~m.isMonitoring

\* update(): the monitor after the call (the callback is accounted for by
\* updateCallsBack and updateSnapshot)
update(m, hasMemory) ==
    IF updateReturnsEarly(m) THEN m
    ELSE LET currentTime == PerformanceNow
             deltaTime   == currentTime - m.lastTime
             counted     == [m EXCEPT !.frameCount = @ + 1,
                                      !.fps = calculateFPS(deltaTime)]
             pushed      == [counted EXCEPT !.frameHistory = pushSample(@, counted.fps)]
             measured    == updateMemoryUsage(updateStatistics(pushed), hasMemory)
         IN  [measured EXCEPT !.lastTime = currentTime]

\* update(): whether the call reaches this.onUpdate(this.getMetrics())
updateCallsBack(m) == ~updateReturnsEarly(m) /\ m.onUpdate

\* update(): the snapshot the callback receives (lastTime is not part of it)
updateSnapshot(m, hasMemory) == getMetrics(update(m, hasMemory))

\* setRayCount(count) / setTriangleCount(count)
setRayCount(m, count) == [m EXCEPT !.rayCount = count]
setTriangleCount(m, count) == [m EXCEPT !.triangleCount = count]

\* setUpdateCallback(callback)
setUpdateCallback(m, callback) == [m EXCEPT !.onUpdate = callback]

\* isPoorPerformance() whose warm-up test is off by one
isPoorPerformanceEarly(m) == m.averageFPS < PoorFPS /\ Len(m.frameHistory) >= WarmupLength

\* isPoorPerformance()
isPoorPerformance(m) == m.averageFPS < PoorFPS /\ Len(m.frameHistory) > WarmupLength

\* getPerformanceLevel() with strict comparisons
getPerformanceLevelStrict(m) ==
    IF m.averageFPS > 55 THEN "excellent"
    ELSE IF m.averageFPS > 45 THEN "good"
    ELSE IF m.averageFPS > 30 THEN "fair"
    ELSE "poor"

\* getPerformanceLevel()
getPerformanceLevel(m) ==
    IF m.averageFPS >= 55 THEN "excellent"
    ELSE IF m.averageFPS >= 45 THEN "good"
    ELSE IF m.averageFPS >= 30 THEN "fair"
    ELSE "poor"

\* getSuggestedQuality() whose 'fair' entry repeats the engine's default raySteps
getSuggestedQualityStale(m) ==
    LET lvl == getPerformanceLevel(m)
    IN  CASE lvl = "excellent" ->
               [resolutionScale |-> 10, raySteps |-> 50,
                shadowQuality |-> "high", reflectionBounces |-> 3]
          [] lvl = "good" ->
               [resolutionScale |-> 8, raySteps |-> 35,
                shadowQuality |-> "medium", reflectionBounces |-> 2]
          [] lvl = "fair" ->
               [resolutionScale |-> 6, raySteps |-> 30,
                shadowQuality |-> "low", reflectionBounces |-> 1]
          [] lvl = "poor" ->
               [resolutionScale |-> 4, raySteps |-> 15,
                shadowQuality |-> "off", reflectionBounces |-> 0]

\* getSuggestedQuality(); resolutionScale is held in tenths
getSuggestedQuality(m) ==
    LET lvl == getPerformanceLevel(m)
    IN  CASE lvl = "excellent" ->
               [resolutionScale |-> 10, raySteps |-> 50,
                shadowQuality |-> "high", reflectionBounces |-> 3]
          [] lvl = "good" ->
               [resolutionScale |-> 8, raySteps |-> 35,
                shadowQuality |-> "medium", reflectionBounces |-> 2]
          [] lvl = "fair" ->
               [resolutionScale |-> 6, raySteps |-> 25,
                shadowQuality |-> "low", reflectionBounces |-> 1]
          [] lvl = "poor" ->
               [resolutionScale |-> 4, raySteps |-> 15,
                shadowQuality |-> "off", reflectionBounces |-> 0]

\* reset()
reset(m) ==
    [m EXCEPT !.frameCount = 0,
              !.fps = 0,
              !.averageFPS = 0,
              !.minFPS = Infinity,
              !.maxFPS = 0,
              !.frameHistory = << >>,
              !.rayCount = 0,
              !.triangleCount = 0,
              !.lastTime = PerformanceNow]

(***************************************************************************)
(* WebGL objects and Utils                                                 *)
(***************************************************************************)
\* one call made on the context, the monitor, the document or the browser;
\* arg is the object or request the call names, 0 when it names none
Call(name, arg) == [call |-> name, arg |-> arg]

\* the object store of the WebGL context: the objects created and not yet
\* deleted, by kind; objects are numbered in creation order from 1
NewContext ==
    [ next |-> 1, shaders |-> {}, programs |-> {}, buffers |-> {},
      textures |-> {}, framebuffers |-> {} ]

\* the text getShaderInfoLog / getProgramInfoLog returns for a failure
InfoLog == "ERROR: 0:1: syntax error"

\* errors are the parts of their message; << >> is no error
NoError == << >>
CanvasNotFound == <<"Canvas element not found">>
ContextFailed == <<"Failed to get WebGL context">>
ProgramFailed == <<"Failed to create shader program">>
TypeError == <<"TypeError">>
\* Error(`Shader compilation failed: ${error}`), Error(`Program linking failed: ${error}`)
ShaderCompilationFailed == <<"Shader compilation failed: ", InfoLog>>
ProgramLinkingFailed == <<"Program linking failed: ", InfoLog>>

\* Utils.createShader: the context after the call, the shader returned
\* (0 is null), the calls made and the error caught and logged
createShader(g, compiles) ==
    LET shader == g.next
        made   == [g EXCEPT !.next = @ + 1, !.shaders = @ \cup {shader}]
    IN  IF compiles
        THEN [ gpu |-> made, shader |-> shader, caught |-> NoError,
               calls |-> <<Call("createShader", shader)>> ]
        ELSE [ gpu |-> [made EXCEPT !.shaders = @ \ {shader}], shader |-> 0,
               caught |-> ShaderCompilationFailed,
               calls |-> <<Call("createShader", shader), Call("deleteShader", shader)>> ]

\* Utils.createProgram: the context after the call, the program returned
\* (0 is null), the calls made and the errors caught and logged
createProgram(g, vertexOK, fragmentOK, linkOK) ==
    LET vertexShader   == createShader(g, vertexOK)
        fragmentShader == createShader(vertexShader.gpu, fragmentOK)
        compiled       == vertexShader.calls \o fragmentShader.calls
        logged         == vertexShader.caught \o fragmentShader.caught
        program        == fragmentShader.gpu.next
        linked         == [fragmentShader.gpu EXCEPT !.next = @ + 1,
                                                     !.programs = @ \cup {program}]
        cleaned        == [linked EXCEPT
                              !.shaders = @ \ {vertexShader.shader, fragmentShader.shader}]
        deleteShaders  == << Call("deleteShader", vertexShader.shader),
                             Call("deleteShader", fragmentShader.shader) >>
    IN  IF vertexShader.shader = 0 \/ fragmentShader.shader = 0
        THEN [ gpu |-> fragmentShader.gpu, program |-> 0, caught |-> logged,
               calls |-> compiled ]
        ELSE IF ~linkOK
        THEN [ gpu |-> [cleaned EXCEPT !.programs = @ \ {program}], program |-> 0,
               caught |-> ProgramLinkingFailed,
               calls |-> compiled \o << Call("createProgram", program),
                                        Call("deleteProgram", program) >>
                                  \o deleteShaders ]
        ELSE [ gpu |-> cleaned, program |-> program, caught |-> NoError,
               calls |-> compiled \o <<Call("createProgram", program)>> \o deleteShaders ]

(***************************************************************************)
(* RaytracingEngine                                                        *)
(***************************************************************************)
\* setupResizeHandler: the wait of the debounced resize listener (ms)
DebounceWait == 250

\* the timer variable of a debounce closure while no timer is pending
NoTimeout == -1

\* Utils.debounce, one call of the returned function on a closure whose
\* timer has `timeout` ms left: clearTimeout(timeout), then
\* timeout = setTimeout(later, wait)
debounceKeepsTimer(timeout, wait) == IF timeout = NoTimeout THEN wait ELSE timeout
debounce(timeout, wait) == wait

\* no resize event yet
NoResize == [listeners |-> 0, events |-> 0, since |-> 0, runs |-> 0]

\* constructor (animationId 0 and program 0 are null; times in milliseconds;
\* buffers, textures and framebuffers are the lists of this.resources;
\* resizeTimeouts holds, per registered resize listener, the time left on the
\* timer of its debounce closure (NoTimeout when none is pending);
\* quality.resolutionScale is held in tenths)
NewEngine ==
    [ canvas             |-> FALSE,
      gl                 |-> FALSE,
      program            |-> 0,
      performanceElement |-> FALSE,
      isRunning          |-> FALSE,
      animationId        |-> 0,
      rayCount           |-> 0,
      startTime          |-> 0,
      currentTime        |-> 0,
      buffers            |-> << >>,
      textures           |-> << >>,
      framebuffers       |-> << >>,
      resizeListeners    |-> 0,
      resizeTimeouts     |-> << >>,
      quality            |-> [resolutionScale |-> 8, raySteps |-> 30,
                              shadowQuality |-> "medium", reflectionBounces |-> 2] ]

\* init(): if (!this.canvas) throw / if (!this.gl) throw
initContinuesWithoutSurface(found) == FALSE
initThrowsEarly(found) == ~found

\* init() on engine e and context g: the engine and the context when the
\* call returns or throws, the calls made and the error thrown.  The host
\* decides whether the canvas and the display element exist, whether a WebGL
\* context can be created, whether each shader compiles and whether the
\* program links.
init(e, g, canvasFound, perfFound, contextOK, vertexOK, fragmentOK, linkOK) ==
    LET found    == [e EXCEPT !.canvas = canvasFound,
                              !.performanceElement = perfFound]
        lookups  == <<Call("getElementById", 0), Call("getElementById", 0)>>
        ctx      == [found EXCEPT !.gl = contextOK]
        ctxCalls == lookups \o <<Call("getContext", 0)>>
        made     == createProgram(g, vertexOK, fragmentOK, linkOK)
        prog     == [ctx EXCEPT !.program = made.program]
        progCalls == ctxCalls \o <<Call("viewport", 0)>> \o made.calls
        buffer   == made.gpu.next
        geometry == [made.gpu EXCEPT !.next = @ + 1, !.buffers = @ \cup {buffer}]
        wired    == [prog EXCEPT !.buffers = Append(@, buffer),
                                 !.resizeListeners = @ + 1,
                                 !.resizeTimeouts = Append(@, NoTimeout)]
    IN  IF initThrowsEarly(canvasFound)
        THEN [engine |-> found, gpu |-> g, calls |-> lookups, thrown |-> CanvasNotFound]
        ELSE IF initThrowsEarly(contextOK)
        THEN [engine |-> ctx, gpu |-> g, calls |-> ctxCalls, thrown |-> ContextFailed]
        ELSE IF made.program = 0
        THEN [engine |-> prog, gpu |-> made.gpu, calls |-> progCalls,
              thrown |-> ProgramFailed]
        ELSE [engine |-> wired, gpu |-> geometry, thrown |-> NoError,
              calls |-> progCalls \o << Call("createBuffer", buffer),
                                        Call("setUpdateCallback", 0),
                                        Call("addEventListener", 0) >>]

\* init() reaches setupPerformanceMonitoring
initSucceeds(canvasFound, contextOK, vertexOK, fragmentOK, linkOK) ==
    canvasFound /\ contextOK /\ vertexOK /\ fragmentOK /\ linkOK

\* start(): if (this.isRunning) return
startRestarts(e) == FALSE
startReturnsEarly(e) == e.isRunning

\* stop(): if (!this.isRunning) return
stopReturnsEarly(e) == ~e.isRunning

\* stop(): the engine after the call
stopEngine(e) ==
    IF stopReturnsEarly(e) THEN e
    ELSE [e EXCEPT !.isRunning = FALSE, !.animationId = 0]

\* stop(): the requests it cancels
stopCancels(e) ==
    IF ~stopReturnsEarly(e) /\ e.animationId # 0 THEN {e.animationId} ELSE {}

\* stop(): the calls it makes
stopCalls(e) ==
    IF stopReturnsEarly(e) THEN << >>
    ELSE <<Call("performanceMonitor.stop", 0)>>
         \o (IF e.animationId # 0
             THEN <<Call("cancelAnimationFrame", e.animationId)>> ELSE << >>)

\* render(): gl.clear on a missing context throws before the draw call
renderThrowsBeforeDraw(e) == ~e.gl
\* render(): this.canvas.width on a missing canvas throws after the draw call
renderThrowsAfterDraw(e) == e.gl /\ ~e.canvas
renderThrows(e) == renderThrowsBeforeDraw(e) \/ renderThrowsAfterDraw(e)

\* render(): the engine after the call
render(e) ==
    IF renderThrows(e) THEN e ELSE [e EXCEPT !.rayCount = CanvasPixels]

\* updateUniforms(): the calls it makes
updateUniformsCalls(e) ==
    IF e.program # 0
    THEN <<Call("useProgram", e.program), Call("uniform1f", 0)>> ELSE << >>

\* render(): the calls it makes
renderCalls(e) ==
    IF renderThrowsBeforeDraw(e) THEN << >>
    ELSE <<Call("clear", 0), Call("useProgram", e.program)>>
         \o updateUniformsCalls(e) \o <<Call("drawArrays", 0)>>

\* animate() on a running engine: the engine after the tick, given the id
\* requestAnimationFrame returns and whether the update callback of this
\* tick calls stop()
animate(e, requestId, stops) ==
    LET timed    == [e EXCEPT !.currentTime = PerformanceNow - e.startTime]
        called   == IF stops THEN stopEngine(timed) ELSE timed
        rendered == render(called)
    IN  IF renderThrows(called) THEN rendered
        ELSE [rendered EXCEPT !.animationId = requestId]

\* animate(): the monitor after update() and setRayCount(this.rayCount)
animateMonitorAfterRender(e, m, hasMemory, stops) ==
    setRayCount(IF stops THEN stop(update(m, hasMemory)) ELSE update(m, hasMemory),
                render(e).rayCount)
animateMonitor(e, m, hasMemory, stops) ==
    setRayCount(IF stops THEN stop(update(m, hasMemory)) ELSE update(m, hasMemory),
                e.rayCount)

\* animate() that draws before it updates the monitor
animateCallsDrawFirst(e, m, requestId, stops) ==
    <<Call("performance.now", 0)>> \o renderCalls(e)
    \o <<Call("performanceMonitor.update", 0), Call("setRayCount", 0)>>
    \o (IF renderThrows(e) THEN << >>
        ELSE <<Call("requestAnimationFrame", requestId)>>)

\* animate() on a running engine with monitor m: the calls it makes, in order
animateCalls(e, m, requestId, stops) ==
    <<Call("performance.now", 0), Call("performanceMonitor.update", 0)>>
    \o (IF updateCallsBack(m) THEN <<Call("onUpdate", 0)>> ELSE << >>)
    \o (IF stops THEN stopCalls(e) ELSE << >>)
    \o <<Call("setRayCount", 0)>>
    \o renderCalls(e)
    \o (IF renderThrows(e) THEN << >>
        ELSE <<Call("requestAnimationFrame", requestId)>>)

\* the elements of a sequence
Range(s) == {s[i] : i \in 1 .. Len(s)}

\* cleanup(): the delete calls it makes, in order
cleanupCalls(e) ==
    [i \in 1 .. Len(e.buffers) |-> Call("deleteBuffer", e.buffers[i])]
    \o [i \in 1 .. Len(e.textures) |-> Call("deleteTexture", e.textures[i])]
    \o [i \in 1 .. 2 * Len(e.framebuffers) |->
           IF i % 2 = 1
           THEN Call("deleteFramebuffer", e.framebuffers[(i + 1) \div 2].framebuffer)
           ELSE Call("deleteTexture", e.framebuffers[i \div 2].texture)]
    \o (IF e.program # 0 THEN <<Call("deleteProgram", e.program)>> ELSE << >>)

\* cleanup(): if (!this.gl) return
cleanupReturnsEarly(e) == ~e.gl

\* cleanup(): the engine and the context after the call and the calls made
cleanup(e, g) ==
    IF cleanupReturnsEarly(e) THEN [engine |-> e, gpu |-> g, calls |-> << >>]
    ELSE [ engine |-> [stopEngine(e) EXCEPT !.buffers = << >>,
                                            !.textures = << >>,
                                            !.framebuffers = << >>],
           gpu    |-> [g EXCEPT
                         !.buffers = @ \ Range(e.buffers),
                         !.textures = @ \ (Range(e.textures)
                                           \cup {fb.texture : fb \in Range(e.framebuffers)}),
                         !.framebuffers = @ \ {fb.framebuffer : fb \in Range(e.framebuffers)},
                         !.programs = @ \ {e.program}],
           calls  |-> stopCalls(e) \o cleanupCalls(e) ]

\* { ...a, ...b }: the fields of b override those of a
Spread(a, b) ==
    [k \in DOMAIN a \cup DOMAIN b |-> IF k \in DOMAIN b THEN b[k] ELSE a[k]]

\* resize(): the calls it makes
resizeCalls(e) ==
    <<Call("resize", 0)>>
    \o (IF ~e.canvas \/ ~e.gl THEN << >>
        ELSE <<Call("resizeCanvas", 0), Call("viewport", 0)>> \o updateUniformsCalls(e))

\* adjustQuality(): the engine after the call
adjustQuality(e, m) ==
    [e EXCEPT !.quality = Spread(@, getSuggestedQuality(m))]

\* adjustQuality(): if (suggested.resolutionScale !== this.quality.resolutionScale),
\* evaluated after this.quality has been replaced by the merged profile
adjustQualityResizes(e, m) ==
    getSuggestedQuality(m).resolutionScale # adjustQuality(e, m).quality.resolutionScale

\* adjustQuality(): the calls it makes
adjustQualityCalls(e, m) ==
    <<Call("getSuggestedQuality", 0)>>
    \o (IF adjustQualityResizes(e, m) THEN resizeCalls(adjustQuality(e, m)) ELSE << >>)

(***************************************************************************)
(* ParticleSystem.  Numbers are fixed-point integers and every division    *)
(* truncates toward zero: lengths in hundredths of a pixel, velocities in  *)
(* hundredths of a pixel per update, opacities in hundredths, strengths in *)
(* thousandths, ages and lifetimes in milliseconds.  A value returned by   *)
(* Math.random() is a number of ten-thousandths, 0 .. 9999.  A list built  *)
(* element by element is written << >> \o [k \in ... |-> ...].             *)
(***************************************************************************)
\* a / b truncated toward zero (b > 0)
Div(a, b) == IF a >= 0 THEN a \div b ELSE 0 - ((0 - a) \div b)

Min(a, b) == IF a < b THEN a ELSE b
Max(a, b) == IF a > b THEN a ELSE b

\* Math.sqrt, rounded down: Newton's iteration from an upper estimate x
RECURSIVE SqrtFrom(_, _)
SqrtFrom(n, x) ==
    LET y == (x + n \div x) \div 2
    IN  IF y >= x THEN x ELSE SqrtFrom(n, y)

Sqrt(n) == IF n = 0 THEN 0 ELSE SqrtFrom(n, Min(n, 46340))

\* Utils.clamp
clampNot(value, min, max) == value
clamp(value, min, max) == Min(Max(value, min), max)

\* Utils.random(min, max) for the Math.random() value r
random(r, min, max) == min + Div(r * (max - min), 10000)

\* config of the constructor; maxParticles is the bound MaxParticles
connectionDistance == 12000
mouseInfluence == 15000
baseSpeed == 50
maxSpeed == 200
opacityMin == 20
opacityMax == 80
\* createParticle: Utils.random(5, 10) seconds
maxLifeMin == 5000
maxLifeMax == 10000
\* updateParticles: particle.age += 0.016
ageStep == 16
\* updateParticles: force * 0.02
mouseKick == 2
\* updateParticles: the damping factor 0.99, in hundredths
damping == 99
\* updateParticles: Utils.clamp(particle.opacity, 0.1, 1.0)
opacityFloor == 10
opacityCeiling == 100
\* updateParticles: mouseProximity * 0.3 and Math.min(connections * 0.1, 0.3)
proximityBonus == 30
connectionStep == 10
connectionBonusMax == 30
\* resize: Math.floor(area / 20000), the area in square pixels
areaPerParticle == 20000
\* addBurst: Utils.random(-20, 20) pixels around the position
burstSpread == 2000
\* addBurst: Utils.random(-2, 2)
burstSpeed == 200

\* createParticle(): the particle built from the seven Math.random() values
\* of draw on a canvas of the size of ps; id is the identity of the object
createParticle(ps, draw, id) ==
    [ id            |-> id,
      x             |-> Div(draw.x * ps.width, 10000),
      y             |-> Div(draw.y * ps.height, 10000),
      vx            |-> Div((draw.vx - 5000) * baseSpeed, 10000),
      vy            |-> Div((draw.vy - 5000) * baseSpeed, 10000),
      opacity       |-> random(draw.opacity, opacityMin, opacityMax),
      baseOpacity   |-> random(draw.baseOpacity, opacityMin, opacityMax),
      life          |-> 1000,
      maxLife       |-> random(draw.maxLife, maxLifeMin, maxLifeMax),
      age           |-> 0,
      mouseDistance |-> 100000,
      connections   |-> 0 ]

\* updateParticles, the mouse influence on one velocity component: d is the
\* component of the offset to the pointer along it (cos(atan2(dy, dx)) is
\* dx / distance, and atan2(0, 0) is 0), dist the distance to the pointer
mouseForce(d, dist, unit) ==
    IF dist >= mouseInfluence THEN 0
    ELSE IF dist = 0 THEN unit * mouseKick
    ELSE Div(d * (mouseInfluence - dist) * mouseKick, dist * mouseInfluence)

\* Math.sqrt, rounded up
SqrtUp(n) == IF Sqrt(n) * Sqrt(n) = n THEN Sqrt(n) ELSE Sqrt(n) + 1

\* updateParticles: the speed limit on component v of a velocity (vx, vy);
\* the speed is rounded up and the quotient toward zero, so that the
\* rounding of the fixed point never lengthens the limited velocity
limitNot(v, vx, vy) == v
limitSpeed(v, vx, vy) ==
    IF vx * vx + vy * vy > maxSpeed * maxSpeed
    THEN Div(v * maxSpeed, SqrtUp(vx * vx + vy * vy))
    ELSE v

\* updateParticles: the wrap around the screen edges of a coordinate
wrapNot(c, size) == c
wrap(c, size) ==
    LET low == IF c < 0 THEN size ELSE c
    IN  IF low > size THEN 0 ELSE low

\* updateParticles: the body of the loop on one particle, before the removal
stepParticle(ps, p) ==
    LET dx      == ps.mouseX - p.x
        dy      == ps.mouseY - p.y
        dist    == Sqrt(dx * dx + dy * dy)
        pushedX == p.vx - mouseForce(dx, dist, 1)
        pushedY == p.vy - mouseForce(dy, dist, 0)
        dampedX == Div(pushedX * damping, 100)
        dampedY == Div(pushedY * damping, 100)
        vx      == limitSpeed(dampedX, dampedX, dampedY)
        vy      == limitSpeed(dampedY, dampedX, dampedY)
        age     == p.age + ageStep
        mouseProximity == proximityBonus
                          - Min(Div(dist * proximityBonus, mouseInfluence), proximityBonus)
        connectionBonus == Min(p.connections * connectionStep, connectionBonusMax)
    IN  [p EXCEPT !.mouseDistance = dist,
                  !.vx = vx,
                  !.vy = vy,
                  !.x = wrap(p.x + vx, ps.width),
                  !.y = wrap(p.y + vy, ps.height),
                  !.age = age,
                  !.life = 1000 - Div(age * 1000, p.maxLife),
                  !.opacity = clamp(p.baseOpacity + mouseProximity + connectionBonus,
                                    opacityFloor, opacityCeiling)]

\* updateParticles: if (particle.life <= 0)
deadNever(p) == FALSE
dead(p) == p.life <= 0

\* updateParticles(): every particle is stepped and the dead ones are
\* removed (the loop runs backward so that splice does not skip any)
updateParticles(ps) ==
    [ps EXCEPT !.particles =
        SelectSeq(<< >> \o [k \in DOMAIN @ |-> stepParticle(ps, @[k])],
                  LAMBDA p : ~dead(p))]

\* updateConnections: the pairs <<i, j>> with i < j <= n, in loop order
RECURSIVE PairsFrom(_, _, _)
PairsFrom(i, j, n) ==
    IF i >= n THEN << >>
    ELSE IF j > n THEN PairsFrom(i + 1, i + 2, n)
    ELSE <<<<i, j>>>> \o PairsFrom(i, j + 1, n)

\* updateConnections: distance between two particles
distance(p1, p2) == Sqrt((p1.x - p2.x) * (p1.x - p2.x) + (p1.y - p2.y) * (p1.y - p2.y))

\* updateConnections: if (distance < this.config.connectionDistance)
connectsAlways(p1, p2) == TRUE
connects(p1, p2) == distance(p1, p2) < connectionDistance

\* updateConnections: the record pushed for a pair
connection(p1, p2) ==
    LET strength == 1000 - Div(distance(p1, p2) * 1000, connectionDistance)
    IN  [ p1       |-> p1.id,
          p2       |-> p2.id,
          distance |-> distance(p1, p2),
          strength |-> strength,
          opacity  |-> Div(strength * Min(p1.opacity, p2.opacity), 1000) ]

\* updateConnections(): the list is rebuilt and the counters recounted
updateConnections(ps) ==
    LET ps1    == ps.particles
        close  == SelectSeq(PairsFrom(1, 2, Len(ps1)),
                            LAMBDA ij : connects(ps1[ij[1]], ps1[ij[2]]))
        joined == << >> \o [k \in DOMAIN close |->
                               connection(ps1[close[k][1]], ps1[close[k][2]])]
        count(p) == Cardinality({k \in DOMAIN joined :
                                    joined[k].p1 = p.id \/ joined[k].p2 = p.id})
    IN  [ps EXCEPT !.connections = joined,
                   !.particles = << >> \o [k \in DOMAIN ps1 |->
                                     [ps1[k] EXCEPT !.connections = count(ps1[k])]]]

\* the number of particles maintainParticleCount() creates
missingNone(ps) == 0
missing(ps) == Max(ps.maxParticles - Len(ps.particles), 0)

\* maintainParticleCount(): draws holds the Math.random() values of the
\* particles it creates, id is the identity of the first of them
maintainParticleCount(ps, draws, id) ==
    [ps EXCEPT !.particles =
        @ \o [k \in 1 .. missing(ps) |-> createParticle(ps, draws[k], id + k - 1)]]

\* update(mouseX, mouseY)
updateNoRefill(ps, mouseX, mouseY, draws, id) ==
    updateConnections(
        updateParticles([ps EXCEPT !.mouseX = mouseX, !.mouseY = mouseY]))
updateSystem(ps, mouseX, mouseY, draws, id) ==
    maintainParticleCount(
        updateConnections(
            updateParticles([ps EXCEPT !.mouseX = mouseX, !.mouseY = mouseY])),
        draws, id)

\* n >= 1 calls of update(mouseX, mouseY) during which no particle is
\* created: the first half of the calls, then the rest on their result
RECURSIVE updateTimes(_, _, _, _)
updateTimes(ps, mouseX, mouseY, n) ==
    IF n = 1 THEN updateSystem(ps, mouseX, mouseY, << >>, 0)
    ELSE CHOOSE after \in { updateTimes(half, mouseX, mouseY, n - n \div 2) :
                               half \in {updateTimes(ps, mouseX, mouseY, n \div 2)} } : TRUE

\* resize(): targetParticleCount for the size Utils.resizeCanvas gives the
\* canvas
targetParticleCount(ps, canvas) ==
    Min(((canvas.width \div 100) * (canvas.height \div 100)) \div areaPerParticle,
        ps.maxParticles)

\* resize(): canvas is the size Utils.resizeCanvas gives the canvas
resizeParticles(ps, canvas) ==
    LET target == targetParticleCount(ps, canvas)
        moved  == << >> \o [k \in DOMAIN ps.particles |->
                               [ps.particles[k] EXCEPT !.x = Min(@, canvas.width),
                                                       !.y = Min(@, canvas.height)]]
    IN  [ps EXCEPT !.width = canvas.width,
                   !.height = canvas.height,
                   !.particles = IF target < Len(moved) THEN SubSeq(moved, 1, target)
                                 ELSE moved]

\* addBurst(x, y, count), one particle of it: createParticle() and the four
\* further Math.random() values of spread
burstParticle(ps, x, y, spread, id) ==
    [createParticle(ps, spread.draw, id) EXCEPT
        !.x = x + random(spread.x, 0 - burstSpread, burstSpread),
        !.y = y + random(spread.y, 0 - burstSpread, burstSpread),
        !.vx = random(spread.vx, 0 - burstSpeed, burstSpeed),
        !.vy = random(spread.vy, 0 - burstSpeed, burstSpeed),
        !.opacity = 100,
        !.life = 1000]

\* addBurst(x, y, count): Len(spreads) = count
addBurstOneShort(ps, x, y, spreads, id) ==
    [ps EXCEPT !.particles =
        @ \o [k \in 1 .. Len(spreads) - 1 |->
                burstParticle(ps, x, y, spreads[k], id + k - 1)]]
addBurst(ps, x, y, spreads, id) ==
    [ps EXCEPT !.particles =
        @ \o [k \in DOMAIN spreads |->
                burstParticle(ps, x, y, spreads[k], id + k - 1)]]

\* constructor: the canvas has the size `attribute` when init() creates the
\* particles and the size `shown` after resize()
NewParticleSystem(attribute, shown, capacity, draws) ==
    LET created == [ particles     |-> << >>,
                     connections   |-> << >>,
                     mouseX        |-> 0,
                     mouseY        |-> 0,
                     width         |-> attribute.width,
                     height        |-> attribute.height,
                     maxParticles  |-> capacity ]
        filled  == [created EXCEPT !.particles =
                       [k \in 1 .. capacity |-> createParticle(created, draws[k], k)]]
    IN  resizeParticles(filled, shown)

\* a page without the particle background
NoParticleSystem ==
    [ particles |-> << >>, connections |-> << >>, mouseX |-> 0, mouseY |-> 0,
      width |-> 0, height |-> 0, maxParticles |-> 0 ]

\* nothing has happened to the particle system: the identity of the next
\* particle, the counts of update() calls followed one by one and of
\* addBurst() calls, the population before the last addBurst() and its
\* count, the identity from which particles are younger than that burst,
\* the count of resize() calls, whether the last of them removed particles
\* and the count of update() calls since
NoParticleLog ==
    [ nextId |-> 1, updates |-> 0, bursts |-> 0,
      burstFrom |-> 0, burstCount |-> 0, cohort |-> 0,
      resizes |-> 0, shrunk |-> FALSE, sinceResize |-> 0 ]

(***************************************************************************)
(* Initial state: a freshly constructed engine with its monitor, on        *)
(* either kind of host                                                     *)
(***************************************************************************)
Init ==
    /\ monitor = NewMonitor
    /\ hostMemory \in BOOLEAN
    /\ display = << >>
    /\ callbackInvoked = FALSE
    /\ samples = << >>
    /\ level = Null
    /\ suggested = << >>
    /\ engine = NewEngine
    /\ scheduled = {}
    /\ nextRequestId = 1
    /\ gpu = NewContext
    /\ calls = << >>
    /\ thrown = NoError
    /\ onUpdateStops = FALSE
    /\ resizeLog = NoResize
    /\ particleSystem = NoParticleSystem
    /\ particleLog = NoParticleLog
    /\ lastCall = [op |-> "constructor", active |-> FALSE]

(***************************************************************************)
(* Steps of the host                                                       *)
(***************************************************************************)
\* d milliseconds pass: every stored timestamp is d older.  The time origin
\* of an engine that is not running is never read before start() replaces it.
Advance(d) ==
    /\ PerformanceNow - (monitor.lastTime - d) <= MaxDelta
    /\ engine.isRunning => PerformanceNow - (engine.startTime - d) <= MaxElapsed
    /\ monitor' = [monitor EXCEPT !.lastTime = @ - d]
    /\ engine' = IF engine.isRunning
                 THEN [engine EXCEPT !.startTime = @ - d] ELSE engine
    /\ callbackInvoked' = FALSE
    /\ calls' = << >>
    /\ thrown' = NoError
    /\ lastCall' = [op |-> "advance", active |-> FALSE]
    /\ UNCHANGED <<pageVars, hostMemory, display, samples, level, suggested,
                   scheduled, nextRequestId, gpu, onUpdateStops>>

MonStart ==
    /\ monitor' = start(monitor)
    /\ samples' = << >>
    /\ callbackInvoked' = FALSE
    /\ lastCall' = [op |-> "start", active |-> monitor.isMonitoring]
    /\ UNCHANGED <<pageVars, hostMemory, display, level, suggested, engVars>>

MonStop ==
    /\ monitor' = stop(monitor)
    /\ callbackInvoked' = FALSE
    /\ lastCall' = [op |-> "stop", active |-> monitor.isMonitoring]
    /\ UNCHANGED <<pageVars, hostMemory, display, samples, level, suggested, engVars>>

\* update() and what follows from it for the callback and the session log
UpdateEffects ==
    /\ callbackInvoked' = updateCallsBack(monitor)
    /\ display' = IF updateCallsBack(monitor)
                  THEN <<updateSnapshot(monitor, hostMemory)>> ELSE display
    /\ samples' = IF monitor.isMonitoring
                  THEN Append(samples, update(monitor, hostMemory).fps)
                  ELSE samples

MonUpdate ==
    /\ monitor' = update(monitor, hostMemory)
    /\ UpdateEffects
    /\ lastCall' = [op |-> "update", active |-> monitor.isMonitoring]
    /\ UNCHANGED <<pageVars, hostMemory, level, suggested, engVars>>

MonReset ==
    /\ monitor' = reset(monitor)
    /\ samples' = << >>
    /\ callbackInvoked' = FALSE
    /\ lastCall' = [op |-> "reset", active |-> monitor.isMonitoring]
    /\ UNCHANGED <<pageVars, hostMemory, display, level, suggested, engVars>>

MonSetRayCount(count) ==
    /\ monitor' = setRayCount(monitor, count)
    /\ callbackInvoked' = FALSE
    /\ lastCall' = [op |-> "setRayCount", active |-> monitor.isMonitoring]
    /\ UNCHANGED <<pageVars, hostMemory, display, samples, level, suggested, engVars>>

MonSetTriangleCount(count) ==
    /\ monitor' = setTriangleCount(monitor, count)
    /\ callbackInvoked' = FALSE
    /\ lastCall' = [op |-> "setTriangleCount", active |-> monitor.isMonitoring]
    /\ UNCHANGED <<pageVars, hostMemory, display, samples, level, suggested, engVars>>

MonSetUpdateCallback ==
    /\ monitor' = setUpdateCallback(monitor, TRUE)
    /\ callbackInvoked' = FALSE
    /\ lastCall' = [op |-> "setUpdateCallback", active |-> monitor.isMonitoring]
    /\ UNCHANGED <<pageVars, hostMemory, display, samples, level, suggested, engVars>>

\* the host reads getPerformanceLevel()
QueryLevel ==
    /\ level' = getPerformanceLevel(monitor)
    /\ callbackInvoked' = FALSE
    /\ lastCall' = [op |-> "getPerformanceLevel", active |-> monitor.isMonitoring]
    /\ UNCHANGED <<pageVars, monitor, hostMemory, display, samples, suggested, engVars>>

\* the host reads getSuggestedQuality()
QuerySuggested ==
    /\ suggested' = <<getSuggestedQuality(monitor)>>
    /\ callbackInvoked' = FALSE
    /\ lastCall' = [op |-> "getSuggestedQuality", active |-> monitor.isMonitoring]
    /\ UNCHANGED <<pageVars, monitor, hostMemory, display, samples, level, engVars>>

(***************************************************************************)
(* Specification of the monitor API with a free frame pace: MaxFrames      *)
(* updates per monitoring session                                          *)
(***************************************************************************)
FreeUpdate == (monitor.isMonitoring => monitor.frameCount < MaxFrames) /\ MonUpdate

Next ==
    \/ \E d \in Deltas : Advance(d)
    \/ MonStart
    \/ MonStop
    \/ FreeUpdate
    \/ MonReset
    \/ \E c \in Counts : MonSetRayCount(c)
    \/ \E c \in Counts : MonSetTriangleCount(c)
    \/ MonSetUpdateCallback

Spec == Init /\ [][Next]_vars

(***************************************************************************)
(* Specification of long sessions: up to MaxWindowFrames updates, of which *)
(* the first FreeFrames have a free pace and the rest repeat the last one  *)
(***************************************************************************)
SteadyPace(log) ==
    \A i \in 1 .. Len(log) - 1 : i >= FreeFrames => log[i + 1] = log[i]

WindowUpdate ==
    /\ monitor.isMonitoring => monitor.frameCount < MaxWindowFrames
    /\ MonUpdate
    /\ SteadyPace(samples')

WindowNext ==
    \/ \E d \in Deltas : Advance(d)
    \/ MonStart
    \/ MonStop
    \/ WindowUpdate
    \/ MonReset
    \/ \E c \in Counts : MonSetRayCount(c)
    \/ \E c \in Counts : MonSetTriangleCount(c)

WindowSpec == Init /\ [][WindowNext]_vars

(***************************************************************************)
(* Specification of the tier functions: a monitor that has recorded one    *)
(* sample s, for every s up to MaxSample and for Infinity                  *)
(***************************************************************************)
MonitorAfterSample(s) ==
    updateStatistics([start(NewMonitor) EXCEPT !.frameCount = 1,
                                               !.fps = s,
                                               !.frameHistory = <<s>>])

TierInit ==
    /\ \E s \in (0 .. MaxSample) \cup {Infinity} : monitor = MonitorAfterSample(s)
    /\ samples = monitor.frameHistory
    /\ hostMemory \in BOOLEAN
    /\ display = << >>
    /\ callbackInvoked = FALSE
    /\ level = Null
    /\ suggested = << >>
    /\ engine = NewEngine
    /\ scheduled = {}
    /\ nextRequestId = 1
    /\ gpu = NewContext
    /\ calls = << >>
    /\ thrown = NoError
    /\ onUpdateStops = FALSE
    /\ resizeLog = NoResize
    /\ particleSystem = NoParticleSystem
    /\ particleLog = NoParticleLog
    /\ lastCall = [op |-> "update", active |-> TRUE]

TierNext == QueryLevel \/ QuerySuggested

TierSpec == TierInit /\ [][TierNext]_vars

(***************************************************************************)
(* Steps of the host driving an engine                                     *)
(***************************************************************************)
EngineInit(canvasFound, perfFound, contextOK, vertexOK, fragmentOK, linkOK) ==
    LET done == init(engine, gpu, canvasFound, perfFound, contextOK,
                     vertexOK, fragmentOK, linkOK)
    IN  /\ engine.resizeListeners < MaxInits
        /\ gpu.next <= MaxObjects
        /\ engine' = done.engine
        /\ gpu' = done.gpu
        /\ calls' = done.calls
        /\ thrown' = done.thrown
        /\ monitor' = IF initSucceeds(canvasFound, contextOK, vertexOK, fragmentOK, linkOK)
                      THEN setUpdateCallback(monitor, TRUE) ELSE monitor
        /\ onUpdateStops' = IF initSucceeds(canvasFound, contextOK, vertexOK,
                                            fragmentOK, linkOK)
                            THEN FALSE ELSE onUpdateStops
        /\ callbackInvoked' = FALSE
        /\ lastCall' = [op |-> "engine.init", active |-> engine.isRunning]
        /\ UNCHANGED <<pageVars, hostMemory, display, samples, level, suggested,
                       scheduled, nextRequestId>>

\* the host replaces the update callback by one that calls engine.stop()
EngineSetStopCallback ==
    /\ ~onUpdateStops
    /\ monitor' = setUpdateCallback(monitor, TRUE)
    /\ onUpdateStops' = TRUE
    /\ callbackInvoked' = FALSE
    /\ calls' = << >>
    /\ thrown' = NoError
    /\ lastCall' = [op |-> "setUpdateCallback", active |-> monitor.isMonitoring]
    /\ UNCHANGED <<pageVars, hostMemory, display, samples, level, suggested,
                   engine, scheduled, nextRequestId, gpu>>

\* the update callback of a tick on monitor m calls stop()
CallbackStops(m) == updateCallsBack(m) /\ onUpdateStops

\* animate() on a running engine e whose monitor is m and session log is log,
\* after the calls before: one tick
AnimateEffects(e, m, log, before) ==
    /\ engine' = animate(e, nextRequestId, CallbackStops(m))
    /\ monitor' = animateMonitor(e, m, hostMemory, CallbackStops(m))
    /\ calls' = before \o animateCalls(e, m, nextRequestId, CallbackStops(m))
    /\ thrown' = IF renderThrows(e) THEN TypeError ELSE NoError
    /\ callbackInvoked' = updateCallsBack(m)
    /\ display' = IF updateCallsBack(m)
                  THEN <<updateSnapshot(m, hostMemory)>> ELSE display
    /\ samples' = IF m.isMonitoring
                  THEN Append(log, update(m, hostMemory).fps) ELSE log

\* animate() that never requests the next frame
AnimateSchedulesNothing(e, m, pending) ==
    /\ scheduled' = pending
    /\ nextRequestId' = nextRequestId

\* animate() on a running engine schedules the next tick unless render()
\* threw; a stop() made by the update callback cancels this.animationId
AnimateSchedules(e, m, pending) ==
    LET remaining == IF CallbackStops(m) THEN pending \ stopCancels(e) ELSE pending
    IN  IF renderThrows(e)
        THEN /\ scheduled' = remaining
             /\ nextRequestId' = nextRequestId
        ELSE /\ scheduled' = remaining \cup {nextRequestId}
             /\ nextRequestId' = nextRequestId + 1

\* start()
EngineStart ==
    /\ lastCall' = [op |-> "engine.start", active |-> engine.isRunning]
    /\ UNCHANGED <<pageVars, hostMemory, level, suggested, gpu, onUpdateStops>>
    /\ IF startReturnsEarly(engine)
       THEN /\ callbackInvoked' = FALSE
            /\ calls' = << >>
            /\ thrown' = NoError
            /\ UNCHANGED <<engine, monitor, display, samples, scheduled, nextRequestId>>
       ELSE /\ nextRequestId <= MaxRequests
            /\ LET started == [engine EXCEPT !.isRunning = TRUE,
                                             !.startTime = PerformanceNow]
               IN  /\ AnimateEffects(started, start(monitor), << >>,
                                     <<Call("performanceMonitor.start", 0)>>)
                   /\ AnimateSchedules(started, start(monitor), scheduled)

\* stop()
EngineStop ==
    /\ lastCall' = [op |-> "engine.stop", active |-> engine.isRunning]
    /\ callbackInvoked' = FALSE
    /\ engine' = stopEngine(engine)
    /\ monitor' = IF stopReturnsEarly(engine) THEN monitor ELSE stop(monitor)
    /\ scheduled' = scheduled \ stopCancels(engine)
    /\ calls' = stopCalls(engine)
    /\ thrown' = NoError
    /\ UNCHANGED <<pageVars, hostMemory, display, samples, level, suggested, nextRequestId,
                   gpu, onUpdateStops>>

\* animate(): if (!this.isRunning) return
animateAlways(e) == FALSE
animateReturnsEarly(e) == ~e.isRunning

\* the browser runs the animation-frame callback of request id
Tick(id) ==
    /\ id \in scheduled
    /\ lastCall' = [op |-> "engine.animate", active |-> engine.isRunning]
    /\ UNCHANGED <<pageVars, hostMemory, level, suggested, gpu, onUpdateStops>>
    /\ IF animateReturnsEarly(engine)
       THEN /\ scheduled' = scheduled \ {id}
            /\ callbackInvoked' = FALSE
            /\ calls' = << >>
            /\ thrown' = NoError
            /\ UNCHANGED <<engine, monitor, display, samples, nextRequestId>>
       ELSE /\ nextRequestId <= MaxRequests
            /\ AnimateEffects(engine, monitor, samples, << >>)
            /\ AnimateSchedules(engine, monitor, scheduled \ {id})

\* cleanup()
EngineCleanup ==
    LET done == cleanup(engine, gpu)
    IN  /\ lastCall' = [op |-> "engine.cleanup", active |-> engine.isRunning]
        /\ engine' = done.engine
        /\ gpu' = done.gpu
        /\ calls' = done.calls
        /\ thrown' = NoError
        /\ monitor' = IF cleanupReturnsEarly(engine) \/ stopReturnsEarly(engine)
                      THEN monitor ELSE stop(monitor)
        /\ scheduled' = IF cleanupReturnsEarly(engine) THEN scheduled
                        ELSE scheduled \ stopCancels(engine)
        /\ callbackInvoked' = FALSE
        /\ UNCHANGED <<pageVars, hostMemory, display, samples, level, suggested, nextRequestId,
                       onUpdateStops>>

\* adjustQuality()
EngineAdjustQuality ==
    /\ lastCall' = [op |-> "engine.adjustQuality", active |-> engine.isRunning]
    /\ engine' = adjustQuality(engine, monitor)
    /\ calls' = adjustQualityCalls(engine, monitor)
    /\ thrown' = NoError
    /\ callbackInvoked' = FALSE
    /\ UNCHANGED <<pageVars, monitor, hostMemory, display, samples, level, suggested,
                   scheduled, nextRequestId, gpu, onUpdateStops>>

\* the window fires a resize event: every registered listener restarts its
\* timer.  A timer that is due runs before an event of the same instant.
ResizeEvent ==
    /\ \A i \in DOMAIN engine.resizeTimeouts : engine.resizeTimeouts[i] # 0
    /\ resizeLog.events > 0 /\ resizeLog.since < DebounceWait
          => resizeLog.events < MaxBurst
    /\ engine' = [engine EXCEPT !.resizeTimeouts =
                     [i \in DOMAIN @ |-> debounce(@[i], DebounceWait)]]
    /\ resizeLog' = [listeners |-> Len(engine.resizeTimeouts),
                     events    |-> IF resizeLog.events > 0
                                      /\ resizeLog.since < DebounceWait
                                   THEN resizeLog.events + 1 ELSE 1,
                     since     |-> 0,
                     runs      |-> 0]
    /\ calls' = << >>
    /\ thrown' = NoError
    /\ callbackInvoked' = FALSE
    /\ lastCall' = [op |-> "resize event", active |-> engine.isRunning]
    /\ UNCHANGED <<monitor, hostMemory, display, samples, level, suggested,
                   scheduled, nextRequestId, gpu, onUpdateStops,
                   particleSystem, particleLog>>

\* d milliseconds pass after a resize event while no timer comes due.  The
\* engine is not running in the specification that takes this step, so no
\* timestamp of the monitor is read.
ResizeWait(d) ==
    /\ resizeLog.events > 0
    /\ resizeLog.since + d <= MaxQuiet
    /\ \A i \in DOMAIN engine.resizeTimeouts :
          engine.resizeTimeouts[i] = NoTimeout \/ engine.resizeTimeouts[i] >= d
    /\ engine' = [engine EXCEPT !.resizeTimeouts =
                     [i \in DOMAIN @ |-> IF @[i] = NoTimeout THEN NoTimeout
                                         ELSE @[i] - d]]
    /\ resizeLog' = [resizeLog EXCEPT !.since = @ + d]
    /\ calls' = << >>
    /\ thrown' = NoError
    /\ callbackInvoked' = FALSE
    /\ lastCall' = [op |-> "wait", active |-> engine.isRunning]
    /\ UNCHANGED <<monitor, hostMemory, display, samples, level, suggested,
                   scheduled, nextRequestId, gpu, onUpdateStops,
                   particleSystem, particleLog>>

\* the timer of listener i is due: later() runs resize()
TimeoutFires(i) ==
    /\ i \in DOMAIN engine.resizeTimeouts
    /\ engine.resizeTimeouts[i] = 0
    /\ engine' = [engine EXCEPT !.resizeTimeouts[i] = NoTimeout]
    /\ resizeLog' = [resizeLog EXCEPT !.runs = @ + 1]
    /\ calls' = resizeCalls(engine)
    /\ thrown' = NoError
    /\ callbackInvoked' = FALSE
    /\ lastCall' = [op |-> "resize timeout", active |-> engine.isRunning]
    /\ UNCHANGED <<monitor, hostMemory, display, samples, level, suggested,
                   scheduled, nextRequestId, gpu, onUpdateStops,
                   particleSystem, particleLog>>

(***************************************************************************)
(* Steps of the page driving a particle system                             *)
(***************************************************************************)
\* new ParticleSystem(canvas) on a page without an engine
ParticleInit ==
    /\ monitor = NewMonitor
    /\ hostMemory = FALSE
    /\ display = << >>
    /\ callbackInvoked = FALSE
    /\ samples = << >>
    /\ level = Null
    /\ suggested = << >>
    /\ engine = NewEngine
    /\ scheduled = {}
    /\ nextRequestId = 1
    /\ gpu = NewContext
    /\ calls = << >>
    /\ thrown = NoError
    /\ onUpdateStops = FALSE
    /\ resizeLog = NoResize
    /\ \E attribute, shown \in Canvases, draws \in [1 .. MaxParticles -> Draws] :
          particleSystem = NewParticleSystem(attribute, shown, MaxParticles, draws)
    /\ particleLog = [NoParticleLog EXCEPT !.nextId = MaxParticles + 1]
    /\ lastCall = [op |-> "ParticleSystem", active |-> FALSE]

\* update(m.x, m.y), the particles it creates built from draws
ParticleUpdate(m) ==
    LET need == missing(updateParticles([particleSystem EXCEPT !.mouseX = m.x,
                                                               !.mouseY = m.y]))
    IN  /\ particleLog.updates < MaxUpdates
        /\ \E draws \in [1 .. need -> Draws] :
              particleSystem' = updateSystem(particleSystem, m.x, m.y, draws,
                                             particleLog.nextId)
        /\ particleLog' = [particleLog EXCEPT !.nextId = @ + need, !.updates = @ + 1,
                                              !.sinceResize = @ + 1]
        /\ lastCall' = [op |-> "particles.update", active |-> FALSE]
        /\ UNCHANGED sceneVars

\* the page leaves a new system running: RunLength calls of update() with
\* the pointer at rest, none of which removes or creates a particle
ParticleRun ==
    /\ particleLog.updates = 0
    /\ Len(particleSystem.particles) >= particleSystem.maxParticles
    /\ \A k \in DOMAIN particleSystem.particles :
          particleSystem.particles[k].age + RunLength * ageStep
              < particleSystem.particles[k].maxLife
    /\ particleSystem' = updateTimes(particleSystem, particleSystem.mouseX,
                                     particleSystem.mouseY, RunLength)
    /\ lastCall' = [op |-> "particles.update", active |-> TRUE]
    /\ UNCHANGED <<sceneVars, particleLog>>

\* a click: addBurst(mouseX, mouseY, count), every particle of it built from
\* spread
ParticleAddBurst(count, spread) ==
    /\ particleLog.bursts < MaxBursts
    /\ particleSystem' = addBurst(particleSystem, particleSystem.mouseX,
                                  particleSystem.mouseY,
                                  [k \in 1 .. count |-> spread], particleLog.nextId)
    /\ particleLog' = [particleLog EXCEPT !.nextId = @ + count,
                                          !.bursts = @ + 1,
                                          !.burstFrom = Len(particleSystem.particles),
                                          !.burstCount = count,
                                          !.cohort = particleLog.nextId + count]
    /\ lastCall' = [op |-> "particles.addBurst", active |-> FALSE]
    /\ UNCHANGED sceneVars

\* the window is resized to shown: resize()
ParticleResize(shown) ==
    /\ particleLog.resizes < MaxResizes
    /\ particleSystem' = resizeParticles(particleSystem, shown)
    /\ particleLog' = [particleLog EXCEPT
                          !.resizes = @ + 1,
                          !.sinceResize = 0,
                          !.shrunk = targetParticleCount(particleSystem, shown)
                                        < Len(particleSystem.particles)]
    /\ lastCall' = [op |-> "particles.resize", active |-> FALSE]
    /\ UNCHANGED sceneVars

(***************************************************************************)
(* Specification of the render loop: the host initialises, starts and      *)
(* stops an engine whose shaders compile and link, may register a callback *)
(* that stops it, and the browser runs the scheduled ticks                 *)
(***************************************************************************)
EngineNext ==
    \/ \E d \in Deltas : Advance(d)
    \/ \E canvasFound, perfFound, contextOK \in BOOLEAN :
          EngineInit(canvasFound, perfFound, contextOK, TRUE, TRUE, TRUE)
    \/ EngineSetStopCallback
    \/ EngineStart
    \/ EngineStop
    \/ \E id \in scheduled : Tick(id)

EngineSpec == Init /\ [][EngineNext]_vars

(***************************************************************************)
(* Specification of the render loop under a fair tick source: the browser  *)
(* eventually runs every animation-frame request that stays pending.  The  *)
(* steps are those of the render loop within one instant of the clock.     *)
(***************************************************************************)
LoopNext ==
    \/ \E canvasFound, perfFound, contextOK \in BOOLEAN :
          EngineInit(canvasFound, perfFound, contextOK, TRUE, TRUE, TRUE)
    \/ EngineSetStopCallback
    \/ EngineStart
    \/ EngineStop
    \/ \E id \in scheduled : Tick(id)

LoopSpec ==
    /\ Init
    /\ [][LoopNext]_vars
    /\ \A id \in 1 .. MaxRequests + 1 : WF_vars(Tick(id))

(***************************************************************************)
(* Specification of the resources: every outcome of init(), and cleanup(), *)
(* on a host whose clock stands still                                      *)
(***************************************************************************)
ResourceNext ==
    \/ \E canvasFound, perfFound, contextOK, vertexOK, fragmentOK, linkOK \in BOOLEAN :
          EngineInit(canvasFound, perfFound, contextOK, vertexOK, fragmentOK, linkOK)
    \/ EngineStart
    \/ EngineStop
    \/ \E id \in scheduled : Tick(id)
    \/ EngineCleanup

ResourceSpec == Init /\ [][ResourceNext]_vars

(***************************************************************************)
(* Specification of the quality adjustment: an engine, initialised or not, *)
(* whose monitor has recorded one sample s, for every s up to MaxSample    *)
(* and for Infinity                                                        *)
(***************************************************************************)
QualityNext ==
    \/ \E canvasFound, perfFound, contextOK \in BOOLEAN :
          EngineInit(canvasFound, perfFound, contextOK, TRUE, TRUE, TRUE)
    \/ EngineAdjustQuality

QualitySpec == TierInit /\ [][QualityNext]_vars

(***************************************************************************)
(* Specification of the resize handling: the host initialises the engine,  *)
(* the window fires resize events Pauses apart, and due timers run         *)
(***************************************************************************)
ResizeNext ==
    \/ \E canvasFound, perfFound, contextOK \in BOOLEAN :
          EngineInit(canvasFound, perfFound, contextOK, TRUE, TRUE, TRUE)
    \/ ResizeEvent
    \/ \E d \in Pauses : ResizeWait(d)
    \/ \E i \in 1 .. MaxInits + 1 : TimeoutFires(i)

ResizeSpec == Init /\ [][ResizeNext]_vars

(***************************************************************************)
(* Specification of the particle system: the page constructs it, updates   *)
(* it with the pointer at one of Pointers, leaves it running, and clicks   *)
(***************************************************************************)
ParticleNext ==
    \/ \E m \in Pointers : ParticleUpdate(m)
    \/ ParticleRun
    \/ \E count \in BurstCounts, spread \in Spreads : ParticleAddBurst(count, spread)

ParticleSpec == ParticleInit /\ [][ParticleNext]_vars

(***************************************************************************)
(* Specification of the particle background in a window that is resized:   *)
(* update(), addBurst() and resize() in any order on a new system          *)
(***************************************************************************)
SurfaceNext ==
    \/ \E m \in Pointers : ParticleUpdate(m)
    \/ \E count \in BurstCounts, spread \in Spreads : ParticleAddBurst(count, spread)
    \/ \E shown \in Displays : ParticleResize(shown)

SurfaceSpec == ParticleInit /\ [][SurfaceNext]_vars

(***************************************************************************)
(* Properties                                                              *)
(***************************************************************************)
\* the last n elements of a sequence
LastN(s, n) == SubSeq(s, Len(s) - n + 1, Len(s))

\* plain sum of a sequence of finite numbers
RECURSIVE Total(_)
Total(s) == IF Len(s) = 0 THEN 0 ELSE s[1] + Total(Tail(s))

\* a is the mean of h rounded half up (Infinity as soon as h holds Infinity)
IsRoundedMean(a, h) ==
    IF \E i \in 1 .. Len(h) : h[i] = Infinity THEN a = Infinity
    ELSE /\ 2 * Len(h) * a <= 2 * Total(h) + Len(h)
         /\ 2 * Total(h) + Len(h) < 2 * Len(h) * (a + 1)

\* C1: whenever the history is non-empty, minFPS <= averageFPS <= maxFPS
\* (WindowSpec: start, stop, update, reset and the two setters in any order).
C1_MinAvgMax ==
    Len(monitor.frameHistory) > 0 =>
        /\ monitor.minFPS <= monitor.averageFPS
        /\ monitor.averageFPS <= monitor.maxFPS

\* C1 witness: a monitoring update left a mixed window with the mean strictly
\* between the extrema.
C1_Witness ==
    /\ lastCall = [op |-> "update", active |-> TRUE]
    /\ Len(monitor.frameHistory) > 1
    /\ monitor.minFPS < monitor.averageFPS
    /\ monitor.averageFPS < monitor.maxFPS

\* C2: the frame history never holds more than 60 samples.
C2_HistoryBound == Len(monitor.frameHistory) <= 60

\* C2 witness: a full window after more than 60 updates of one session.
C2_Witness ==
    /\ Len(monitor.frameHistory) = 60
    /\ monitor.frameCount > 60

\* C3: after n monitoring updates since the last start() or reset() the
\* history is the last min(n, 60) computed samples in insertion order, and
\* averageFPS is the rounded mean of exactly those samples.
C3_FifoWindow ==
    LET n == Len(samples)
        window == LastN(samples, IF n < 60 THEN n ELSE 60)
    IN  /\ monitor.frameHistory = window
        /\ n > 0 => IsRoundedMean(monitor.averageFPS, window)

\* C3 witness: the oldest samples have been evicted from a window whose
\* evicted and kept samples differ, and the mean is a rounded one.
C3_Witness ==
    /\ Len(samples) > 60
    /\ samples[1] # samples[Len(samples)]
    /\ monitor.frameHistory[1] = samples[Len(samples) - 59]
    /\ monitor.averageFPS < Infinity

\* tiers in increasing order
TierRank(t) ==
    CASE t = "poor" -> 0 [] t = "fair" -> 1 [] t = "good" -> 2 [] t = "excellent" -> 3

\* C4: getPerformanceLevel is total and monotonic in averageFPS: excellent
\* for averageFPS >= 55, good for 45..54, fair for 30..44, poor below 30.
C4_TierThresholds ==
    level # Null =>
        LET a == monitor.averageFPS
        IN  /\ level \in {"excellent", "good", "fair", "poor"}
            /\ level = "excellent" <=> a >= 55
            /\ level = "good" <=> (45 <= a /\ a < 55)
            /\ level = "fair" <=> (30 <= a /\ a < 45)
            /\ level = "poor" <=> a < 30
            /\ \A b \in 0 .. MaxSample :
                 b <= a => TierRank(getPerformanceLevel([monitor EXCEPT !.averageFPS = b]))
                             <= TierRank(level)

\* C4 witness: the boundary value 55 was classified, as excellent.
C4_Witness ==
    /\ lastCall.op = "getPerformanceLevel"
    /\ monitor.averageFPS = 55
    /\ level = "excellent"

\* the table of the claim (resolutionScale in tenths)
ClaimedProfile(t) ==
    CASE t = "excellent" -> [resolutionScale |-> 10, raySteps |-> 50,
                             shadowQuality |-> "high", reflectionBounces |-> 3]
      [] t = "good" -> [resolutionScale |-> 8, raySteps |-> 35,
                        shadowQuality |-> "medium", reflectionBounces |-> 2]
      [] t = "fair" -> [resolutionScale |-> 6, raySteps |-> 25,
                        shadowQuality |-> "low", reflectionBounces |-> 1]
      [] t = "poor" -> [resolutionScale |-> 4, raySteps |-> 15,
                        shadowQuality |-> "off", reflectionBounces |-> 0]

\* C5: getSuggestedQuality returns the table entry of the tier and changes
\* no monitor state, so every call made on an unchanged monitor returns the
\* same profile.
C5_SuggestedQuality ==
    /\ [](suggested # << >> =>
             suggested[1] = ClaimedProfile(getPerformanceLevel(monitor)))
    /\ [][lastCall'.op = "getSuggestedQuality" =>
             /\ monitor' = monitor
             /\ (suggested # << >> => suggested' = suggested)]_vars

\* C5 witness: the profile of the 'fair' tier was returned.
C5_Witness ==
    /\ lastCall.op = "getSuggestedQuality"
    /\ getPerformanceLevel(monitor) = "fair"
    /\ suggested = << [resolutionScale |-> 6, raySteps |-> 25,
                       shadowQuality |-> "low", reflectionBounces |-> 1] >>

\* C6: isPoorPerformance is true exactly when averageFPS < 30 with more than
\* 30 samples held: false during the first 30 updates of a session, true from
\* the 31st on when every sample is below 30.
C6_Underperforming ==
    /\ isPoorPerformance(monitor) <=>
          (monitor.averageFPS < 30 /\ Len(monitor.frameHistory) > 30)
    /\ Len(samples) <= 30 => ~isPoorPerformance(monitor)
    /\ (Len(samples) >= 31 /\ \A i \in 1 .. Len(samples) : samples[i] < 30)
          => isPoorPerformance(monitor)

\* C6 witness: the 31st slow update of a session has just run.
C6_Witness ==
    /\ lastCall = [op |-> "update", active |-> TRUE]
    /\ Len(samples) = 31
    /\ \A i \in 1 .. Len(samples) : samples[i] < 30
    /\ isPoorPerformance(monitor)

\* C7: an update() issued while the monitor is stopped changes nothing,
\* the last timestamp included, and does not invoke the update callback.
C7_StoppedUpdateNoOp ==
    [][(lastCall'.op = "update" /\ ~monitor.isMonitoring) =>
          /\ monitor' = monitor
          /\ display' = display
          /\ ~callbackInvoked']_vars

\* C7 witness: update() was called on a stopped monitor that has a callback
\* and samples, after time had passed since its last timestamp.
C7_Witness ==
    /\ lastCall = [op |-> "update", active |-> FALSE]
    /\ monitor.onUpdate
    /\ monitor.frameCount > 0
    /\ monitor.lastTime < PerformanceNow

\* C8 (as claimed): after start() returns frameCount is 0, the history is
\* empty, currentFPS, averageFPS and maxFPS are 0 and minFPS is the sentinel.
C8_StartResetsAll ==
    lastCall.op = "start" =>
        /\ monitor.frameCount = 0
        /\ monitor.frameHistory = << >>
        /\ monitor.fps = 0
        /\ monitor.averageFPS = 0
        /\ monitor.maxFPS = 0
        /\ monitor.minFPS = Infinity

\* C9 (as claimed): every monitoring update computes
\* currentFPS = round(1000 / max(delta, 1)), a finite number in 0..1000, and
\* leaves no Infinity in the history, averageFPS or maxFPS.
C9_ClampedDelta ==
    [][(lastCall'.op = "update" /\ monitor.isMonitoring) =>
          /\ monitor'.fps = RoundDiv(1000, MathMax(PerformanceNow - monitor.lastTime, 1))
          /\ monitor'.fps \in 0 .. 1000
          /\ monitor'.averageFPS < Infinity
          /\ monitor'.maxFPS < Infinity
          /\ \A i \in 1 .. Len(monitor'.frameHistory) :
                monitor'.frameHistory[i] < Infinity]_vars

\* C10: a start() issued while the engine is running changes nothing: the
\* time origin and the monitor are kept, no tick runs, no tick is scheduled.
C10_StartIdempotent ==
    [][(lastCall'.op = "engine.start" /\ engine.isRunning) =>
          /\ engine' = engine
          /\ monitor' = monitor
          /\ samples' = samples
          /\ display' = display
          /\ ~callbackInvoked'
          /\ scheduled' = scheduled
          /\ nextRequestId' = nextRequestId]_vars

\* C10 witness: start() was called on a running engine with one tick
\* pending, after its time origin and after the monitor had counted frames.
C10_Witness ==
    /\ lastCall = [op |-> "engine.start", active |-> TRUE]
    /\ engine.isRunning
    /\ engine.startTime < PerformanceNow
    /\ monitor.frameCount > 0
    /\ Cardinality(scheduled) = 1

\* the names of the calls of a trace, in order
CallNames(trace) == [i \in 1 .. Len(trace) |-> trace[i].call]

\* the last step ran the body of animate(): a tick the browser ran on a
\* running engine, or the first iteration start() runs itself
TickRan ==
    \/ lastCall = [op |-> "engine.animate", active |-> TRUE]
    \/ lastCall = [op |-> "engine.start", active |-> FALSE]

\* C11: stop() is idempotent: the first stop() on a running engine sets
\* isRunning false, stops the monitor and leaves no tick pending with
\* animationId null; a stop() on a stopped engine raises no error and leaves
\* the engine, the monitor and the pending requests as they were.
C11_StopIdempotent ==
    [][lastCall'.op = "engine.stop" =>
          IF engine.isRunning
          THEN /\ ~engine'.isRunning
               /\ ~monitor'.isMonitoring
               /\ engine'.animationId = 0
               /\ scheduled' = {}
          ELSE /\ engine' = engine
               /\ monitor' = monitor
               /\ scheduled' = scheduled
               /\ thrown' = NoError]_vars

\* C12: no draw call while the engine is not running: a tick that fires when
\* isRunning is false changes neither the engine nor the monitor, makes no
\* call and schedules nothing, and every step that issues a draw call is a
\* tick that observed isRunning true on entry (the browser's, or the one
\* start() runs after setting isRunning).
C12_NoDrawWhileStopped ==
    [][/\ (lastCall'.op = "engine.animate" /\ ~engine.isRunning) =>
             /\ engine' = engine
             /\ monitor' = monitor
             /\ calls' = << >>
             /\ scheduled' \subseteq scheduled
             /\ nextRequestId' = nextRequestId
       /\ "drawArrays" \in Range(CallNames(calls')) =>
             \/ lastCall'.op = "engine.animate" /\ engine.isRunning
             \/ lastCall'.op = "engine.start" /\ ~engine.isRunning]_vars

\* C12 witness: the browser has run a tick on a stopped, initialised engine
C12_Witness ==
    /\ lastCall = [op |-> "engine.animate", active |-> FALSE]
    /\ engine.gl /\ engine.canvas /\ engine.program # 0

\* C13: stop is cooperative: a tick during which stop() is called (from the
\* update callback) runs to completion and schedules no further tick, so no
\* tick is pending once it returns.
C13_CooperativeStop ==
    TickRan /\ "performanceMonitor.stop" \in Range(CallNames(calls)) /\ thrown = NoError
        => /\ "drawArrays" \in Range(CallNames(calls))
           /\ "requestAnimationFrame" \notin Range(CallNames(calls))
           /\ scheduled = {}
           /\ engine.animationId = 0

\* the steps of a tick the claim orders
TickOrder ==
    << "performance.now", "performanceMonitor.update", "onUpdate", "setRayCount",
       "uniform1f", "drawArrays", "requestAnimationFrame" >>

\* the position of a call name in TickOrder, 0 for the other calls
TickRank(name) ==
    IF \E k \in 1 .. Len(TickOrder) : TickOrder[k] = name
    THEN CHOOSE k \in 1 .. Len(TickOrder) : TickOrder[k] = name
    ELSE 0

\* the ordered steps occur at most once each and in the order of TickOrder
InTickOrder(names) ==
    \A i, j \in 1 .. Len(names) :
        (i < j /\ TickRank(names[i]) > 0 /\ TickRank(names[j]) > 0)
            => TickRank(names[i]) < TickRank(names[j])

\* C14: within every tick the steps occur in a fixed order: elapsed time,
\* then PerformanceMonitor.update with its callback fired inside it, then
\* setRayCount, then the uniforms, then the draw call, and only then the
\* request for the next tick; a tick that completes on an engine with a
\* program and a callback makes all of them.
C14_TickOrder ==
    TickRan =>
        /\ InTickOrder(CallNames(calls))
        /\ \A i \in 1 .. Len(calls) :
              calls[i].call = "onUpdate" =>
                  i > 1 /\ calls[i - 1].call = "performanceMonitor.update"
        /\ (thrown = NoError /\ engine.program # 0 /\ monitor.onUpdate) =>
              SelectSeq(CallNames(calls), LAMBDA n : TickRank(n) > 0) = TickOrder

\* C14 witness: a tick run by the browser completed with every step
C14_Witness ==
    /\ lastCall = [op |-> "engine.animate", active |-> TRUE]
    /\ thrown = NoError
    /\ SelectSeq(CallNames(calls), LAMBDA n : TickRank(n) > 0) = TickOrder

\* C15: the loop has no fixed iteration count: on an initialised engine,
\* after start() and as long as stop() is not called, every completed tick
\* schedules exactly one next tick, so under a fair tick source the pending
\* tick of a running engine is always followed by a later one (up to the
\* request MaxRequests, the last the model lets complete).
C15_LoopContinues ==
    /\ [][(/\ \/ lastCall'.op = "engine.animate" /\ engine.isRunning
              \/ lastCall'.op = "engine.start" /\ ~engine.isRunning
           /\ thrown' = NoError
           /\ "performanceMonitor.stop" \notin Range(CallNames(calls')))
             => /\ Cardinality(scheduled' \ scheduled) = 1
                /\ scheduled' \ scheduled = {engine'.animationId}
                /\ engine'.isRunning]_vars
    /\ \A n \in 1 .. MaxRequests - 1 :
          (engine.isRunning /\ engine.animationId = n /\ n \in scheduled)
              ~> \/ ~engine.isRunning
                 \/ ~(engine.gl /\ engine.canvas)
                 \/ engine.animationId > n

\* C15 witness: a running engine whose ticks have followed one another
C15_Witness ==
    /\ lastCall = [op |-> "engine.animate", active |-> TRUE]
    /\ engine.isRunning
    /\ engine.animationId >= 3
    /\ scheduled = {engine.animationId}
    /\ Len(samples) >= 3

\* C16: a per-tick failure does not crash the loop: when the draw or the
\* uniform refresh of a tick fails, the next tick is still scheduled and the
\* engine keeps ticking while it is running.
C16_FailureKeepsLoop ==
    (TickRan /\ thrown # NoError /\ engine.isRunning)
        => /\ "requestAnimationFrame" \in Range(CallNames(calls))
           /\ scheduled # {}

\* the objects of a context that are created and not deleted
LiveObjects(g) == g.shaders \cup g.programs \cup g.buffers \cup g.textures \cup g.framebuffers

\* the delete calls of a trace
DeleteCalls(trace) ==
    SelectSeq(trace, LAMBDA c : c.call \in {"deleteBuffer", "deleteTexture",
                                            "deleteFramebuffer", "deleteProgram",
                                            "deleteShader"})

\* C17: cleanup() on an engine that has a context stops the loop and
\* releases every owned resource exactly once over the engine's lifetime:
\* after it the registry is empty, every delete call it issues names an
\* object that was still alive, and a cleanup() that follows a cleanup()
\* issues no delete call and changes neither the engine nor the context.
C17_CleanupOnce ==
    [][(lastCall'.op = "engine.cleanup" /\ engine.gl) =>
          /\ ~engine'.isRunning
          /\ engine'.buffers = << >>
          /\ engine'.textures = << >>
          /\ engine'.framebuffers = << >>
          /\ \A c \in Range(DeleteCalls(calls')) : c.arg \in LiveObjects(gpu)
          /\ lastCall.op = "engine.cleanup" =>
                /\ DeleteCalls(calls') = << >>
                /\ engine' = engine
                /\ gpu' = gpu]_vars

\* C18: init() throws when the canvas is not found or no context can be
\* created, and then none of the later steps has run: no call beyond the
\* element lookups and the context request, no object created, the program
\* and the buffer registry untouched, no callback wired on the monitor and
\* no resize listener added.
C18_InitFailsEarly ==
    [][(lastCall'.op = "engine.init" /\ (~engine'.canvas \/ ~engine'.gl)) =>
          /\ thrown' = IF ~engine'.canvas THEN CanvasNotFound ELSE ContextFailed
          /\ Range(CallNames(calls')) \subseteq {"getElementById", "getContext"}
          /\ gpu' = gpu
          /\ engine'.program = engine.program
          /\ engine'.buffers = engine.buffers
          /\ engine'.resizeListeners = engine.resizeListeners
          /\ monitor' = monitor]_vars

\* C18 witness: init() has failed for want of a context on a canvas it found
C18_Witness ==
    /\ lastCall.op = "engine.init"
    /\ thrown = ContextFailed
    /\ engine.canvas /\ ~engine.gl

\* C19: a failing init() leaks nothing: every object the call created has
\* been deleted by the time it throws.
C19_FailedInitLeaksNothing ==
    [][(lastCall'.op = "engine.init" /\ thrown' # NoError) =>
          LiveObjects(gpu') \subseteq LiveObjects(gpu)]_vars

\* C20: a shader compile or link failure during init() reaches init's caller
\* as an error that carries the compiler or linker diagnostic, is not
\* retried, and leaves no program registered on the engine.
C20_ShaderErrorText ==
    (/\ lastCall.op = "engine.init"
     /\ "createShader" \in Range(CallNames(calls))
     /\ thrown # NoError)
        => /\ InfoLog \in Range(thrown)
           /\ Len(SelectSeq(calls, LAMBDA c : c.call = "createShader")) = 2
           /\ engine.program = 0

\* C21: adjustQuality() merges the suggested profile into the active one
\* and calls resize() if and only if the suggested resolutionScale differs
\* from the resolutionScale the engine had before the call.
C21_AdjustQualityResizes ==
    [][lastCall'.op = "engine.adjustQuality" =>
          /\ engine'.quality = Spread(engine.quality, getSuggestedQuality(monitor))
          /\ "resize" \in Range(CallNames(calls')) <=>
                getSuggestedQuality(monitor).resolutionScale
                    # engine.quality.resolutionScale]_vars

C23_NoDrawBeforeInit ==
    (lastCall = [op |-> "engine.start", active |-> FALSE]
     /\ engine.resizeListeners = 0)
    => /\ "drawArrays" \notin Range(CallNames(calls))
       /\ ~engine.isRunning

\* C24: disposed is terminal: once cleanup() has released the resources, no
\* later start() or tick issues a draw call or references the released
\* program.
C24_DisposedIsTerminal ==
    (TickRan /\ engine.program # 0 /\ engine.program \notin gpu.programs)
    => /\ "drawArrays" \notin Range(CallNames(calls))
       /\ \A k \in DOMAIN calls :
             calls[k].call = "useProgram" => calls[k].arg \in gpu.programs

\* the particles of the system, their identities, and the particle of
\* identity id
Particles == particleSystem.particles
ParticleIds == {Particles[k].id : k \in DOMAIN Particles}
ParticleOf(id) == Particles[CHOOSE k \in DOMAIN Particles : Particles[k].id = id]

\* the state follows an update()
AfterUpdate == lastCall.op = "particles.update"

\* the two endpoints of a recorded connection
Ends(c) == {c.p1, c.p2}

\* particles p and q are less than 120 pixels apart
Close(p, q) == (p.x - q.x) * (p.x - q.x) + (p.y - q.y) * (p.y - q.y) < 12000 * 12000

\* C25: when no addBurst() has been called, the particle count equals
\* config.maxParticles after every update().
C25_PopulationAtCapacity ==
    (AfterUpdate /\ particleLog.bursts = 0)
    => Len(Particles) = particleSystem.maxParticles

\* an update() has replaced a dead particle
C25_Witness ==
    /\ AfterUpdate
    /\ particleLog.bursts = 0
    /\ Len(Particles) = MaxParticles
    /\ \E id \in ParticleIds : id > MaxParticles /\ ParticleOf(id).age = 0
    /\ \E id \in ParticleIds : ParticleOf(id).age > RunLength * ageStep

\* C26: addBurst(x, y, count) on a system at capacity raises the population
\* to capacity + count at once; during the following updates the population
\* never increases and never drops below capacity, and once every particle
\* that was present at the burst is gone it is exactly capacity.
C26_BurstDecays ==
    [][/\ (lastCall'.op = "particles.addBurst"
           /\ Len(Particles) = particleSystem.maxParticles)
          => Len(particleSystem'.particles)
                = particleSystem.maxParticles + particleLog'.burstCount
       /\ (lastCall'.op = "particles.update"
           /\ particleLog.burstFrom = particleSystem.maxParticles)
          => /\ Len(particleSystem'.particles) <= Len(Particles)
             /\ Len(particleSystem'.particles) >= particleSystem.maxParticles
             /\ (\A k \in DOMAIN particleSystem'.particles :
                    particleSystem'.particles[k].id >= particleLog.cohort)
                => Len(particleSystem'.particles) = particleSystem.maxParticles]_vars

\* the population is back at capacity after a burst of two at capacity
C26_Witness ==
    /\ AfterUpdate
    /\ particleLog.burstFrom = MaxParticles
    /\ particleLog.burstCount = 2
    /\ \A id \in ParticleIds : id >= particleLog.cohort
    /\ Len(Particles) = MaxParticles

\* C27: after every update(), every particle (survivor, created by a burst,
\* or just created to refill) has an opacity within [0.1, 1.0].
C27_OpacityInRange ==
    AfterUpdate => \A k \in DOMAIN Particles :
                      Particles[k].opacity >= 10 /\ Particles[k].opacity <= 100

\* after an update(): a survivor of a burst whose opacity is held at 1.0
\* beside a particle just created
C27_Witness ==
    /\ AfterUpdate
    /\ \E id \in ParticleIds :
          /\ id < particleLog.cohort /\ id >= particleLog.cohort - particleLog.burstCount
          /\ ParticleOf(id).opacity = 100
          /\ ParticleOf(id).baseOpacity + 30 > 100
          /\ ParticleOf(id).age > 0
    /\ \E id \in ParticleIds : ParticleOf(id).age = 0

\* C28: after every update(), each recorded connection joins two distinct
\* particles of the system less than connectionDistance apart, each
\* unordered pair is recorded at most once, and the connection counter of
\* each particle is the number of recorded connections it is an endpoint of.
C28_ConnectionsValid ==
    AfterUpdate =>
        LET joined == particleSystem.connections
        IN  /\ \A k \in DOMAIN joined :
                  /\ joined[k].p1 # joined[k].p2
                  /\ Ends(joined[k]) \subseteq ParticleIds
                  /\ joined[k].distance < 12000
                  /\ Close(ParticleOf(joined[k].p1), ParticleOf(joined[k].p2))
            /\ \A k, l \in DOMAIN joined : Ends(joined[k]) = Ends(joined[l]) => k = l
            /\ \A id \in ParticleIds :
                  ParticleOf(id).connections
                     = Cardinality({k \in DOMAIN joined : id \in Ends(joined[k])})

\* after an update(): a particle with two connections and two particles
\* too far apart to be joined
C28_Witness ==
    /\ AfterUpdate
    /\ \E id \in ParticleIds : ParticleOf(id).connections = 2
    /\ \E a, b \in ParticleIds : ~Close(ParticleOf(a), ParticleOf(b))
    /\ Len(particleSystem.connections) >= 2

\* C29: the connection set is complete for the live set: after update() two
\* particles of the system are joined if and only if they are less than
\* connectionDistance apart.
C29_ConnectionsComplete ==
    AfterUpdate =>
        \A a, b \in ParticleIds :
            a # b => (Close(ParticleOf(a), ParticleOf(b))
                      <=> \E k \in DOMAIN particleSystem.connections :
                             Ends(particleSystem.connections[k]) = {a, b})

\* C30: edges wrap: a particle whose integrated x exceeds the width is
\* placed at x = 0 and one whose x falls below 0 at x = width (likewise for
\* y), with the velocity that moved it; after update() every particle lies
\* within [0, width] x [0, height].
C30_EdgesWrap ==
    [][lastCall' = [op |-> "particles.update", active |-> FALSE] =>
          /\ \A k \in DOMAIN Particles, l \in DOMAIN particleSystem'.particles :
                LET p == Particles[k]
                    q == particleSystem'.particles[l]
                    x == p.x + q.vx
                    y == p.y + q.vy
                IN  p.id = q.id =>
                       /\ q.x = IF x > particleSystem.width THEN 0
                                ELSE IF x < 0 THEN particleSystem.width ELSE x
                       /\ q.y = IF y > particleSystem.height THEN 0
                                ELSE IF y < 0 THEN particleSystem.height ELSE y
          /\ \A l \in DOMAIN particleSystem'.particles :
                LET q == particleSystem'.particles[l]
                IN  /\ q.x >= 0 /\ q.x <= particleSystem.width
                    /\ q.y >= 0 /\ q.y <= particleSystem.height]_vars

\* after the first update(): one particle has wrapped from the right edge to
\* x = 0 and one from the left edge to x = width
C30_Witness ==
    /\ lastCall = [op |-> "particles.update", active |-> FALSE]
    /\ \E id \in ParticleIds :
          ParticleOf(id).x = 0 /\ ParticleOf(id).vx > 0 /\ ParticleOf(id).y = 0
    /\ \E id \in ParticleIds :
          /\ ParticleOf(id).x = particleSystem.width /\ ParticleOf(id).vx < 0
          /\ ParticleOf(id).y = particleSystem.height

\* C31: a particle is destroyed in the update() in which its age reaches
\* maxLife: after update() no particle with life <= 0 (age >= maxLife) is
\* left in the system, and no particle whose age is still below maxLife has
\* been removed by that update.
C31_DiesAtMaxLife ==
    [][lastCall' = [op |-> "particles.update", active |-> FALSE] =>
          /\ \A l \in DOMAIN particleSystem'.particles :
                /\ particleSystem'.particles[l].life > 0
                /\ particleSystem'.particles[l].age < particleSystem'.particles[l].maxLife
          /\ \A k \in DOMAIN Particles :
                Particles[k].age + ageStep < Particles[k].maxLife
                => \E l \in DOMAIN particleSystem'.particles :
                      /\ particleSystem'.particles[l].id = Particles[k].id
                      /\ particleSystem'.particles[l].age = Particles[k].age + ageStep]_vars

\* after an update(): one particle has just been replaced while another,
\* one update short of its maxLife, is still there
C31_Witness ==
    /\ lastCall = [op |-> "particles.update", active |-> FALSE]
    /\ \E id \in ParticleIds : id > MaxParticles /\ ParticleOf(id).age = 0
    /\ \E id \in ParticleIds :
          /\ ParticleOf(id).age < ParticleOf(id).maxLife
          /\ ParticleOf(id).age + ageStep >= ParticleOf(id).maxLife

\* C34: speed is clamped on every tick: after update() every particle of the
\* system, the ones injected by addBurst() included, has a speed
\* sqrt(vx^2 + vy^2) of at most config.maxSpeed.
C34_SpeedClamped ==
    AfterUpdate =>
        \A k \in DOMAIN Particles :
            Particles[k].vx * Particles[k].vx + Particles[k].vy * Particles[k].vy
                <= maxSpeed * maxSpeed

\* a particle of a burst, injected with the speed 2 * sqrt(2) > maxSpeed,
\* has gone through its first update() and moves at the limit
C34_Witness ==
    /\ lastCall = [op |-> "particles.update", active |-> FALSE]
    /\ particleLog.bursts > 0
    /\ \E id \in ParticleIds :
          /\ id >= particleLog.cohort - particleLog.burstCount
          /\ id < particleLog.cohort
          /\ ParticleOf(id).age = ageStep
          /\ ParticleOf(id).vx = ParticleOf(id).vy
          /\ ParticleOf(id).vx < 0 - 100

\* the velocity component the update() of C33 would leave: the pointer
\* force added toward the pointer, then the damping; limited tells whether
\* the speed limit would act on it
Attracted(ps, p) ==
    LET dx   == ps.mouseX - p.x
        dy   == ps.mouseY - p.y
        dist == Sqrt(dx * dx + dy * dy)
        vx   == Div((p.vx + mouseForce(dx, dist, 1)) * damping, 100)
        vy   == Div((p.vy + mouseForce(dy, dist, 0)) * damping, 100)
    IN  [vx |-> vx, vy |-> vy, dist |-> dist,
         limited |-> vx * vx + vy * vy > maxSpeed * maxSpeed]

\* C33: the pointer influence is an attraction: update() changes the velocity
\* of a particle closer to the pointer than the influence radius by a vector
\* that points from the particle toward the pointer, of magnitude
\* proportional to (radius - distance) / radius; at or beyond the radius the
\* pointer exerts no force.  Stated on the particles that are not at the
\* pointer itself and that the speed limit leaves alone.
C33_PointerAttracts ==
    [][lastCall' = [op |-> "particles.update", active |-> FALSE] =>
          \A k \in DOMAIN Particles :
              \A l \in DOMAIN particleSystem'.particles :
                  LET p == Particles[k]
                      q == particleSystem'.particles[l]
                      a == Attracted(particleSystem', p)
                  IN  (/\ q.id = p.id
                       /\ a.dist > 0
                       /\ ~a.limited
                       /\ q.vx * q.vx + q.vy * q.vy < maxSpeed * maxSpeed)
                      => (q.vx = a.vx /\ q.vy = a.vy)]_vars

\* C32: resize() never grows the live set: it clamps the position of every
\* existing particle into the bounds of the new surface and, when the target
\* min(floor(area / 20000), maxParticles) is below the current count, cuts
\* the set down to exactly that target; otherwise the count is unchanged.
C32_ResizeShrinksAndClamps ==
    [][lastCall' = [op |-> "particles.resize", active |-> FALSE] =>
          LET after  == particleSystem'.particles
              target == Min(((particleSystem'.width \div 100)
                                * (particleSystem'.height \div 100)) \div areaPerParticle,
                            particleSystem.maxParticles)
          IN  /\ Len(after) <= Len(Particles)
              /\ Len(after) = IF target < Len(Particles) THEN target ELSE Len(Particles)
              /\ \A k \in DOMAIN after :
                    /\ after[k].x >= 0 /\ after[k].x <= particleSystem'.width
                    /\ after[k].y >= 0 /\ after[k].y <= particleSystem'.height]_vars

\* the part of C32 about the count alone
ResizeCount ==
    [][lastCall' = [op |-> "particles.resize", active |-> FALSE] =>
          LET after  == particleSystem'.particles
              target == Min(((particleSystem'.width \div 100)
                                * (particleSystem'.height \div 100)) \div areaPerParticle,
                            particleSystem.maxParticles)
          IN  /\ Len(after) <= Len(Particles)
              /\ Len(after) = IF target < Len(Particles) THEN target ELSE Len(Particles)
              /\ \A k \in DOMAIN after :
                    /\ after[k].x <= particleSystem'.width
                    /\ after[k].y <= particleSystem'.height]_vars

\* C36: in every reachable state, after any sequence of update(), resize()
\* and addBurst(), both endpoints of every entry of connections are particles
\* currently in the system.
C36_ConnectionEndsLive ==
    \A k \in DOMAIN particleSystem.connections :
        Ends(particleSystem.connections[k]) \subseteq ParticleIds

\* C37: a shrink by resize() does not persist: the update() that follows a
\* resize() which removed particles refills the system to
\* config.maxParticles.
C37_ShrinkRefilled ==
    [][(/\ lastCall.op = "particles.resize"
        /\ particleLog.shrunk
        /\ lastCall'.op = "particles.update")
       => Len(particleSystem'.particles) = particleSystem.maxParticles]_vars

\* the first update() after a resize() that removed particles, and nothing
\* else since, has created a particle and the system is at capacity
C37_Witness ==
    /\ AfterUpdate
    /\ particleLog.shrunk
    /\ particleLog.sinceResize = 1
    /\ particleLog.bursts = 0
    /\ Len(Particles) = MaxParticles
    /\ \E id \in ParticleIds : id > MaxParticles /\ ParticleOf(id).age = 0

\* C35: at most one tick is outstanding at any moment: after any sequence of
\* start() and stop() calls interleaved with ticks, stop() and start() issued
\* from inside a running tick included, there is never more than one
\* scheduled tick, and animationId identifies it, so that stop() cancels
\* every outstanding tick.
C35_OneTickOutstanding ==
    /\ Cardinality(scheduled) <= 1
    /\ scheduled \subseteq {engine.animationId}

\* the part of C35 about the number of scheduled ticks alone
OneTickScheduled == Cardinality(scheduled) <= 1

\* the last step was a tick whose update() called the display callback of
\* an engine that has a performance element
DisplayShown ==
    /\ TickRan
    /\ callbackInvoked
    /\ ~onUpdateStops
    /\ engine.performanceElement
    /\ display # << >>

\* C38: the ray count the display hook shows during tick k is the estimate
\* render() computed in tick k-2, and the initial 0 in the first two ticks
\* after construction: the callback of a tick shows the count the monitor
\* held before the tick, the tick hands the monitor the estimate the engine
\* held before the tick, render() computes the new estimate at the end of the
\* tick, both counts are 0 after construction and nothing changes either of
\* them between two ticks.
C38_RayCountLagsTwoTicks ==
    [][/\ TickRan' =>
             /\ DisplayShown' => display'[1].rayCount = monitor.rayCount
             /\ monitor'.rayCount = engine.rayCount
             /\ thrown' = NoError => engine'.rayCount = CanvasPixels
             /\ thrown' # NoError => engine'.rayCount = engine.rayCount
       /\ lastCall.op = "constructor" =>
             /\ monitor.rayCount = 0
             /\ engine.rayCount = 0
       /\ ~TickRan' =>
             /\ monitor'.rayCount = monitor.rayCount
             /\ engine'.rayCount = engine.rayCount]_vars

\* the third tick of an engine has shown the estimate of its first tick,
\* while the monitor already holds that of the second
C38_Witness ==
    /\ DisplayShown
    /\ thrown = NoError
    /\ nextRequestId = 4
    /\ monitor.frameCount = 3
    /\ display[1].rayCount = CanvasPixels
    /\ display[1].frameCount = 3

====
